---------------------------- MODULE Spec2Model ----------------------------
(***************************************************************************)
(* Model of grpc_server/server.go: the constructor NewGRPCServer with its  *)
(* reflection-based shape checks, and grpcServerRunner.Run with its        *)
(* background serve goroutine, the unbuffered error channel and the select *)
(* between the stop signal and the serve outcome.                          *)
(***************************************************************************)
EXTENDS Integers, Sequences, FiniteSets, TLC

(* ----------------------------- bounds --------------------------------- *)

\* longest parameter list of a candidate registrar function
MaxParams == 3
\* most signals the supervisor puts on one invocation's signals channel
MaxSignals == 2

\* the Run invocations on the one Descriptor (they may overlap)
Runs == {1, 2}

Nil == "nil"

(* ------------------------- reflection model --------------------------- *)

GrpcServerPtr == "*grpc.Server"

\* types a registrar parameter can have
ParamTypes == {GrpcServerPtr, "*http.Server", "FooServer", "interface{}", "int"}

\* dynamic types a non-nil handler value can have
HandlerTypes == {"fooImpl", "int"}

InterfaceTypes == {"FooServer", "interface{}"}

MethodSet(t) ==
    CASE t = "FooServer" -> {"Foo"}
      [] t = "fooImpl"   -> {"Foo"}
      [] OTHER           -> {}

SeqsUpTo(S, n) == UNION {[1..k -> S] : k \in 0..n}

\* the values passed as serverRegistrar: the nil interface, a non-function
\* value, or a function with some parameter and result lists
FuncValues ==
    {[kind |-> "func", in |-> i, out |-> o] :
        i \in SeqsUpTo(ParamTypes, MaxParams), o \in SeqsUpTo({"error"}, 1)}

StructValue == [kind |-> "struct", in |-> <<>>, out |-> <<>>]

NilRegistrar == [kind |-> Nil, in |-> <<>>, out |-> <<>>]

Registrars == FuncValues \cup {StructValue, NilRegistrar}

\* the values passed as handler: the nil interface or a value of a concrete type
Handlers == {Nil} \cup HandlerTypes

Addresses == {"fixed", "ephemeral"}

TlsConfigs == {Nil, "tlsCfg"}

\* reflect.ValueOf(x).Type(): panics on the zero Value that a nil interface gives
TypePanics(kindOrType) == kindOrType = Nil

\* reflect.Type.Implements(u): panics when u is not an interface type
ImplementsPanics(u) == u \notin InterfaceTypes

Implements(t, u) == MethodSet(u) \subseteq MethodSet(t)

\* the value of the runner variable before NewGRPCServer has returned one
NoRunner == [listenAddress |-> Nil, handler |-> Nil,
             serverRegistrar |-> NilRegistrar, tlsConfig |-> Nil]

Panic(msg) == [panic |-> TRUE, msg |-> msg, runner |-> NoRunner]

NewGRPCServer_NoFirstParamCheck(listenAddress, tlsConfig, handler, serverRegistrar) ==
    IF TypePanics(serverRegistrar.kind) \/ TypePanics(handler)
      THEN Panic("reflect: call of reflect.Value.Type on zero Value")
    ELSE IF serverRegistrar.kind # "func"
      THEN Panic("serverRegistrar should be func")
    ELSE IF Len(serverRegistrar.in) # 2
      THEN Panic("serverRegistrar should have 2 parameters")
    ELSE IF Len(serverRegistrar.out) # 0
      THEN Panic("serverRegistrar should return no value")
    ELSE IF ImplementsPanics(serverRegistrar.in[2])
      THEN Panic("reflect: non-interface type passed to Type.Implements")
    ELSE IF ~Implements(handler, serverRegistrar.in[2])
      THEN Panic("second parameter is not implemented by handler")
    ELSE [panic |-> FALSE, msg |-> Nil,
          runner |-> [listenAddress   |-> listenAddress,
                      handler         |-> handler,
                      serverRegistrar |-> serverRegistrar,
                      tlsConfig       |-> tlsConfig]]

NewGRPCServer_NoImplementsCheck(listenAddress, tlsConfig, handler, serverRegistrar) ==
    IF TypePanics(serverRegistrar.kind) \/ TypePanics(handler)
      THEN Panic("reflect: call of reflect.Value.Type on zero Value")
    ELSE IF serverRegistrar.kind # "func"
      THEN Panic("serverRegistrar should be func")
    ELSE IF Len(serverRegistrar.in) # 2
      THEN Panic("serverRegistrar should have 2 parameters")
    ELSE IF Len(serverRegistrar.out) # 0
      THEN Panic("serverRegistrar should return no value")
    ELSE IF GrpcServerPtr # serverRegistrar.in[1]
      THEN Panic("first parameter must be *grpc.Server")
    ELSE [panic |-> FALSE, msg |-> Nil,
          runner |-> [listenAddress   |-> listenAddress,
                      handler         |-> handler,
                      serverRegistrar |-> serverRegistrar,
                      tlsConfig       |-> tlsConfig]]

\* NewGRPCServer: the checks in the order the code makes them; each failed
\* check panics, so the later ones are not reached
NewGRPCServer(listenAddress, tlsConfig, handler, serverRegistrar) ==
    IF TypePanics(serverRegistrar.kind) \/ TypePanics(handler)
      THEN Panic("reflect: call of reflect.Value.Type on zero Value")
    ELSE IF serverRegistrar.kind # "func"
      THEN Panic("serverRegistrar should be func")
    ELSE IF Len(serverRegistrar.in) # 2
      THEN Panic("serverRegistrar should have 2 parameters")
    ELSE IF Len(serverRegistrar.out) # 0
      THEN Panic("serverRegistrar should return no value")
    ELSE IF GrpcServerPtr # serverRegistrar.in[1]
      THEN Panic("first parameter must be *grpc.Server")
    ELSE IF ImplementsPanics(serverRegistrar.in[2])
      THEN Panic("reflect: non-interface type passed to Type.Implements")
    ELSE IF ~Implements(handler, serverRegistrar.in[2])
      THEN Panic("second parameter is not implemented by handler")
    ELSE [panic |-> FALSE, msg |-> Nil,
          runner |-> [listenAddress   |-> listenAddress,
                      handler         |-> handler,
                      serverRegistrar |-> serverRegistrar,
                      tlsConfig       |-> tlsConfig]]


(* ------------------------------ state --------------------------------- *)

VARIABLES
    construct,  \* the NewGRPCServer call: its arguments and how it ended
    desc,       \* the grpcServerRunner it returned (NoRunner if none)
    extHolds,   \* another process holds the fixed address
    pc,         \* pc[r]: where Run invocation r is
    err,        \* err[r]: Run's local variable err
    ret,        \* ret[r]: the value Run returned ("unreturned" before)
    lis,        \* lis[r]: the listener of invocation r
    server,     \* server[r]: the grpc.Server of invocation r
    errCh,      \* errCh[r]: the error channel and what was done on it
    bg,         \* bg[r]: the goroutine started by invocation r
    ready,      \* ready[r]: the ready channel handed to invocation r
    sigSent,    \* sigSent[r]: signals put on r's signals channel so far
    sigRecv,    \* sigRecv[r]: signals Run has received from it
    log,        \* log[r]: the steps Run has taken, in order
    raced       \* raced[r]: when the select chose, both a signal and the
                \* serve outcome were available (history)

vars == <<construct, desc, extHolds, pc, err, ret, lis, server, errCh, bg,
          ready, sigSent, sigRecv, log, raced>>

runVars == <<pc, err, ret, lis, server, errCh, bg, ready, sigRecv, log, raced>>

\* what Serve can return when serving ends without a stop
ServeFailures == {"ErrListenerClosed"}

\* what Serve can return after GracefulStop
StoppedOutcomes == {Nil, "ErrServerStopped"}

BindError == "EADDRINUSE"

Pending(r) == sigSent[r] - sigRecv[r]

Init ==
    /\ construct = [state |-> "none", handler |-> Nil, registrar |-> NilRegistrar]
    /\ desc = NoRunner
    /\ extHolds \in BOOLEAN
    /\ pc = [r \in Runs |-> "start"]
    /\ err = [r \in Runs |-> Nil]
    /\ ret = [r \in Runs |-> "unreturned"]
    /\ lis = [r \in Runs |-> "none"]
    /\ server = [r \in Runs |-> [state |-> "none", creds |-> <<>>, registered |-> <<>>]]
    /\ errCh = [r \in Runs |-> [made |-> FALSE, ops |-> <<>>]]
    /\ bg = [r \in Runs |-> [pc |-> "none", outcome |-> Nil, serves |-> 0, sends |-> 0]]
    /\ ready = [r \in Runs |-> "open"]
    /\ sigSent = [r \in Runs |-> 0]
    /\ sigRecv = [r \in Runs |-> 0]
    /\ log = [r \in Runs |-> <<>>]
    /\ raced = [r \in Runs |-> FALSE]

(* --------------------------- construction ----------------------------- *)

\* a call NewGRPCServer(a, t, h, g) by the embedding program: it panics or
\* returns the runner
ConstructWith(a, t, h, g) ==
    /\ LET res == NewGRPCServer(a, t, h, g) IN
         /\ construct' = [state |-> IF res.panic THEN "panicked" ELSE "returned",
                          handler |-> h, registrar |-> g]
         /\ desc' = res.runner
    /\ UNCHANGED <<extHolds, runVars, sigSent>>

Construct ==
    /\ construct.state = "none"
    /\ \E a \in Addresses, t \in TlsConfigs, h \in Handlers, g \in Registrars :
          ConstructWith(a, t, h, g)

(* ------------------------------- Run ---------------------------------- *)

\* AddrInUse that sees only the other process, as with SO_REUSEPORT listeners
AddrInUse_OnlyExternal ==
    /\ desc.listenAddress = "fixed"
    /\ extHolds

\* net.Listen fails on a fixed address that some listener already holds
AddrInUse ==
    /\ desc.listenAddress = "fixed"
    /\ (extHolds \/ \E q \in Runs : lis[q] = "open")

\* lines 73-79, bind succeeded
ListenOk(r) ==
    /\ construct.state = "returned"
    /\ pc[r] = "start"
    /\ ~AddrInUse
    /\ lis' = [lis EXCEPT ![r] = "open"]
    /\ err' = [err EXCEPT ![r] = Nil]
    /\ pc' = [pc EXCEPT ![r] = "bound"]
    /\ log' = [log EXCEPT ![r] = Append(@, "listen")]
    /\ UNCHANGED <<construct, desc, extHolds, ret, server, errCh, bg, ready,
                   sigSent, sigRecv, raced>>

\* ListenFail with the ready channel closed before the return
ListenFail_ClosesReady(r) ==
    /\ construct.state = "returned"
    /\ pc[r] = "start"
    /\ AddrInUse
    /\ err' = [err EXCEPT ![r] = BindError]
    /\ ret' = [ret EXCEPT ![r] = BindError]
    /\ ready' = [ready EXCEPT ![r] = "closed"]
    /\ pc' = [pc EXCEPT ![r] = "done"]
    /\ log' = [log EXCEPT ![r] = @ \o <<"listenFailed", "return">>]
    /\ UNCHANGED <<construct, desc, extHolds, lis, server, errCh, bg,
                   sigSent, sigRecv, raced>>

\* lines 73-79, bind failed: return err
ListenFail(r) ==
    /\ construct.state = "returned"
    /\ pc[r] = "start"
    /\ AddrInUse
    /\ err' = [err EXCEPT ![r] = BindError]
    /\ ret' = [ret EXCEPT ![r] = BindError]
    /\ pc' = [pc EXCEPT ![r] = "done"]
    /\ log' = [log EXCEPT ![r] = @ \o <<"listenFailed", "return">>]
    /\ UNCHANGED <<construct, desc, extHolds, lis, server, errCh, bg, ready,
                   sigSent, sigRecv, raced>>

\* NewServer that never passes the credentials option
NewServer_Insecure(r) ==
    /\ pc[r] = "bound"
    /\ server' = [server EXCEPT ![r] =
                    [state |-> "new", creds |-> <<>>, registered |-> <<>>]]
    /\ pc' = [pc EXCEPT ![r] = "built"]
    /\ log' = [log EXCEPT ![r] = Append(@, "newServer")]
    /\ UNCHANGED <<construct, desc, extHolds, err, ret, lis, errCh, bg, ready,
                   sigSent, sigRecv, raced>>

\* NewServer that clears the runner's tlsConfig once it has used it
NewServer_ClearsTls(r) ==
    /\ pc[r] = "bound"
    /\ server' = [server EXCEPT ![r] =
                    [state |-> "new",
                     creds |-> IF desc.tlsConfig # Nil THEN <<desc.tlsConfig>> ELSE <<>>,
                     registered |-> <<>>]]
    /\ desc' = [desc EXCEPT !.tlsConfig = Nil]
    /\ pc' = [pc EXCEPT ![r] = "built"]
    /\ log' = [log EXCEPT ![r] = Append(@, "newServer")]
    /\ UNCHANGED <<construct, extHolds, err, ret, lis, errCh, bg, ready,
                   sigSent, sigRecv, raced>>

\* lines 81-85: the options and grpc.NewServer
NewServer(r) ==
    /\ pc[r] = "bound"
    /\ server' = [server EXCEPT ![r] =
                    [state |-> "new",
                     creds |-> IF desc.tlsConfig # Nil THEN <<desc.tlsConfig>> ELSE <<>>,
                     registered |-> <<>>]]
    /\ pc' = [pc EXCEPT ![r] = "built"]
    /\ log' = [log EXCEPT ![r] = Append(@, "newServer")]
    /\ UNCHANGED <<construct, desc, extHolds, err, ret, lis, errCh, bg, ready,
                   sigSent, sigRecv, raced>>

\* Register left out here, the registrar being called later from the goroutine
Register_Deferred(r) ==
    /\ pc[r] = "built"
    /\ pc' = [pc EXCEPT ![r] = "registered"]
    /\ UNCHANGED <<construct, desc, extHolds, err, ret, lis, server, errCh, bg,
                   ready, sigSent, sigRecv, log, raced>>

\* lines 86-87: vServerRegistrar.Call(server, vHandler)
Register(r) ==
    /\ pc[r] = "built"
    /\ server' = [server EXCEPT ![r].registered =
                    Append(@, [registrar |-> desc.serverRegistrar,
                               server |-> r, handler |-> desc.handler])]
    /\ pc' = [pc EXCEPT ![r] = "registered"]
    /\ log' = [log EXCEPT ![r] = Append(@, "register")]
    /\ UNCHANGED <<construct, desc, extHolds, err, ret, lis, errCh, bg, ready,
                   sigSent, sigRecv, raced>>

\* lines 89-92: make(chan error) and the go statement
Spawn(r) ==
    /\ pc[r] = "registered"
    /\ errCh' = [errCh EXCEPT ![r].made = TRUE]
    /\ bg' = [bg EXCEPT ![r].pc = "spawned"]
    /\ pc' = [pc EXCEPT ![r] = "spawned"]
    /\ log' = [log EXCEPT ![r] = Append(@, "go")]
    /\ UNCHANGED <<construct, desc, extHolds, err, ret, lis, server, ready,
                   sigSent, sigRecv, raced>>

\* CloseReady with the close left out
CloseReady_Forgets(r) ==
    /\ pc[r] = "spawned"
    /\ pc' = [pc EXCEPT ![r] = "wait"]
    /\ UNCHANGED <<construct, desc, extHolds, err, ret, lis, server, errCh, bg,
                   ready, sigSent, sigRecv, log, raced>>

\* line 94: close(ready); closing a closed channel panics
CloseReady(r) ==
    /\ pc[r] = "spawned"
    /\ IF ready[r] = "closed"
         THEN /\ pc' = [pc EXCEPT ![r] = "panicked"]
              /\ UNCHANGED <<ready, log>>
         ELSE /\ ready' = [ready EXCEPT ![r] = "closed"]
              /\ pc' = [pc EXCEPT ![r] = "wait"]
              /\ log' = [log EXCEPT ![r] = Append(@, "ready")]
    /\ UNCHANGED <<construct, desc, extHolds, err, ret, lis, server, errCh, bg,
                   sigSent, sigRecv, raced>>

\* SelectSignal that returns without GracefulStop
SelectSignal_SkipsStop(r) ==
    /\ pc[r] = "wait"
    /\ Pending(r) > 0
    /\ sigRecv' = [sigRecv EXCEPT ![r] = @ + 1]
    /\ pc' = [pc EXCEPT ![r] = "stopped"]
    /\ log' = [log EXCEPT ![r] = Append(@, "recvSignal")]
    /\ raced' = [raced EXCEPT ![r] = bg[r].pc = "send"]
    /\ UNCHANGED <<construct, desc, extHolds, err, ret, lis, server, errCh, bg,
                   ready, sigSent>>

\* SelectSignal that, with a serve outcome also waiting, takes that too
SelectSignal_AlsoTakesErr(r) ==
    /\ pc[r] = "wait"
    /\ Pending(r) > 0
    /\ sigRecv' = [sigRecv EXCEPT ![r] = @ + 1]
    /\ pc' = [pc EXCEPT ![r] = "stop"]
    /\ log' = [log EXCEPT ![r] = Append(@, "recvSignal")]
    /\ raced' = [raced EXCEPT ![r] = bg[r].pc = "send"]
    /\ IF bg[r].pc = "send"
         THEN /\ err' = [err EXCEPT ![r] = bg[r].outcome]
              /\ errCh' = [errCh EXCEPT ![r].ops = @ \o <<<<"send", "bg">>, <<"recv", "run">>>>]
              /\ bg' = [bg EXCEPT ![r].pc = "exited"]
         ELSE UNCHANGED <<err, errCh, bg>>
    /\ UNCHANGED <<construct, desc, extHolds, ret, lis, server, ready, sigSent>>

\* lines 96-98: the select takes a value from signals
SelectSignal(r) ==
    /\ pc[r] = "wait"
    /\ Pending(r) > 0
    /\ sigRecv' = [sigRecv EXCEPT ![r] = @ + 1]
    /\ pc' = [pc EXCEPT ![r] = "stop"]
    /\ log' = [log EXCEPT ![r] = Append(@, "recvSignal")]
    /\ raced' = [raced EXCEPT ![r] = bg[r].pc = "send"]
    /\ UNCHANGED <<construct, desc, extHolds, err, ret, lis, server, errCh, bg,
                   ready, sigSent>>

\* SelectErr as a select with a default case: it does not block when
\* neither channel has a value
SelectErr_NoBlock(r) ==
    /\ pc[r] = "wait"
    /\ IF bg[r].pc = "send"
         THEN /\ err' = [err EXCEPT ![r] = bg[r].outcome]
              /\ errCh' = [errCh EXCEPT ![r].ops = @ \o <<<<"send", "bg">>, <<"recv", "run">>>>]
              /\ bg' = [bg EXCEPT ![r].pc = "exited"]
              /\ log' = [log EXCEPT ![r] = Append(@, "recvErr")]
         ELSE /\ UNCHANGED <<err, errCh, bg>>
              /\ log' = [log EXCEPT ![r] = Append(@, "default")]
    /\ pc' = [pc EXCEPT ![r] = "stop"]
    /\ raced' = [raced EXCEPT ![r] = Pending(r) > 0]
    /\ UNCHANGED <<construct, desc, extHolds, ret, lis, server, ready,
                   sigSent, sigRecv>>

\* SelectErr that does not stop the server when Serve ended cleanly
SelectErr_NilSkipsStop(r) ==
    /\ pc[r] = "wait"
    /\ bg[r].pc = "send"
    /\ err' = [err EXCEPT ![r] = bg[r].outcome]
    /\ errCh' = [errCh EXCEPT ![r].ops = @ \o <<<<"send", "bg">>, <<"recv", "run">>>>]
    /\ bg' = [bg EXCEPT ![r].pc = "exited"]
    /\ pc' = [pc EXCEPT ![r] = IF bg[r].outcome = Nil THEN "stopped" ELSE "stop"]
    /\ log' = [log EXCEPT ![r] = Append(@, "recvErr")]
    /\ raced' = [raced EXCEPT ![r] = Pending(r) > 0]
    /\ UNCHANGED <<construct, desc, extHolds, ret, lis, server, ready,
                   sigSent, sigRecv>>

\* SelectErr that receives the outcome without assigning it to err
SelectErr_DropsErr(r) ==
    /\ pc[r] = "wait"
    /\ bg[r].pc = "send"
    /\ errCh' = [errCh EXCEPT ![r].ops = @ \o <<<<"send", "bg">>, <<"recv", "run">>>>]
    /\ bg' = [bg EXCEPT ![r].pc = "exited"]
    /\ pc' = [pc EXCEPT ![r] = "stop"]
    /\ log' = [log EXCEPT ![r] = Append(@, "recvErr")]
    /\ raced' = [raced EXCEPT ![r] = Pending(r) > 0]
    /\ UNCHANGED <<construct, desc, extHolds, err, ret, lis, server, ready,
                   sigSent, sigRecv>>

\* SelectErr that returns the outcome at once, without GracefulStop
SelectErr_ReturnsEarly(r) ==
    /\ pc[r] = "wait"
    /\ bg[r].pc = "send"
    /\ err' = [err EXCEPT ![r] = bg[r].outcome]
    /\ ret' = [ret EXCEPT ![r] = bg[r].outcome]
    /\ errCh' = [errCh EXCEPT ![r].ops = @ \o <<<<"send", "bg">>, <<"recv", "run">>>>]
    /\ bg' = [bg EXCEPT ![r].pc = "exited"]
    /\ pc' = [pc EXCEPT ![r] = "done"]
    /\ log' = [log EXCEPT ![r] = @ \o <<"recvErr", "return">>]
    /\ raced' = [raced EXCEPT ![r] = Pending(r) > 0]
    /\ UNCHANGED <<construct, desc, extHolds, lis, server, ready,
                   sigSent, sigRecv>>

\* lines 96-101: the select takes the serve outcome; errCh is unbuffered, so
\* this is the moment the goroutine's send completes
SelectErr(r) ==
    /\ pc[r] = "wait"
    /\ bg[r].pc = "send"
    /\ err' = [err EXCEPT ![r] = bg[r].outcome]
    /\ errCh' = [errCh EXCEPT ![r].ops = @ \o <<<<"send", "bg">>, <<"recv", "run">>>>]
    /\ bg' = [bg EXCEPT ![r].pc = "exited"]
    /\ pc' = [pc EXCEPT ![r] = "stop"]
    /\ log' = [log EXCEPT ![r] = Append(@, "recvErr")]
    /\ raced' = [raced EXCEPT ![r] = Pending(r) > 0]
    /\ UNCHANGED <<construct, desc, extHolds, ret, lis, server, ready,
                   sigSent, sigRecv>>

\* line 103: server.GracefulStop() is called; it closes the listeners that
\* Serve has handed to the server
GracefulStopCall(r) ==
    /\ pc[r] = "stop"
    /\ server' = [server EXCEPT ![r].state = "stopped"]
    /\ lis' = [lis EXCEPT ![r] = IF server[r].state = "started" THEN "closed" ELSE @]
    /\ pc' = [pc EXCEPT ![r] = "stopping"]
    /\ log' = [log EXCEPT ![r] = Append(@, "stopCall")]
    /\ UNCHANGED <<construct, desc, extHolds, err, ret, errCh, bg, ready,
                   sigSent, sigRecv, raced>>

\* GracefulStopReturn followed by a drain of errCh
GracefulStopReturn_Drains(r) ==
    /\ pc[r] = "stopping"
    /\ pc' = [pc EXCEPT ![r] = "stopped"]
    /\ log' = [log EXCEPT ![r] = Append(@, "stopReturn")]
    /\ IF bg[r].pc = "send"
         THEN /\ errCh' = [errCh EXCEPT ![r].ops = @ \o <<<<"send", "bg">>, <<"recv", "drain">>>>]
              /\ bg' = [bg EXCEPT ![r].pc = "exited"]
         ELSE UNCHANGED <<errCh, bg>>
    /\ UNCHANGED <<construct, desc, extHolds, err, ret, lis, server,
                   ready, sigSent, sigRecv, raced>>

\* line 103: server.GracefulStop() returns
GracefulStopReturn(r) ==
    /\ pc[r] = "stopping"
    /\ pc' = [pc EXCEPT ![r] = "stopped"]
    /\ log' = [log EXCEPT ![r] = Append(@, "stopReturn")]
    /\ UNCHANGED <<construct, desc, extHolds, err, ret, lis, server, errCh, bg,
                   ready, sigSent, sigRecv, raced>>

\* Return that first empties the signals channel
Return_DrainsSignals(r) ==
    /\ pc[r] = "stopped"
    /\ ret' = [ret EXCEPT ![r] = err[r]]
    /\ sigRecv' = [sigRecv EXCEPT ![r] = sigSent[r]]
    /\ pc' = [pc EXCEPT ![r] = "done"]
    /\ log' = [log EXCEPT ![r] = Append(@, "return")]
    /\ UNCHANGED <<construct, desc, extHolds, err, lis, server, errCh, bg,
                   ready, sigSent, raced>>

\* line 104: return err
Return(r) ==
    /\ pc[r] = "stopped"
    /\ ret' = [ret EXCEPT ![r] = err[r]]
    /\ pc' = [pc EXCEPT ![r] = "done"]
    /\ log' = [log EXCEPT ![r] = Append(@, "return")]
    /\ UNCHANGED <<construct, desc, extHolds, err, lis, server, errCh, bg,
                   ready, sigSent, sigRecv, raced>>

(* ------------------------ the serve goroutine ------------------------- *)

\* line 91: the goroutine calls server.Serve(lis); on a server that was
\* already stopped Serve closes lis and returns ErrServerStopped at once
BgServe(r) ==
    /\ bg[r].pc = "spawned"
    /\ IF server[r].state = "stopped"
         THEN /\ lis' = [lis EXCEPT ![r] = "closed"]
              /\ bg' = [bg EXCEPT ![r] = [pc |-> "send", outcome |-> "ErrServerStopped",
                                          serves |-> @.serves + 1, sends |-> @.sends + 1]]
              /\ UNCHANGED server
         ELSE /\ server' = [server EXCEPT ![r].state = "started"]
              /\ bg' = [bg EXCEPT ![r].pc = "serving", ![r].serves = @ + 1]
              /\ UNCHANGED lis
    /\ UNCHANGED <<construct, desc, extHolds, pc, err, ret, errCh, ready,
                   sigSent, sigRecv, log, raced>>

\* line 91: Serve returns e while the server has not been stopped (the
\* listener failed or was closed from outside, or serving ended cleanly);
\* the goroutine goes on to send e on errCh
BgServeFails(r, e) ==
    /\ bg[r].pc = "serving"
    /\ server[r].state = "started"
    /\ lis' = [lis EXCEPT ![r] = "closed"]
    /\ bg' = [bg EXCEPT ![r].pc = "send", ![r].outcome = e, ![r].sends = @ + 1]
    /\ UNCHANGED <<construct, desc, extHolds, pc, err, ret, server, errCh, ready,
                   sigSent, sigRecv, log, raced>>

\* line 91: Serve returns e because GracefulStop closed its listener
BgServeStopped(r, e) ==
    /\ bg[r].pc = "serving"
    /\ server[r].state = "stopped"
    /\ bg' = [bg EXCEPT ![r].pc = "send", ![r].outcome = e, ![r].sends = @ + 1]
    /\ UNCHANGED <<construct, desc, extHolds, pc, err, ret, lis, server, errCh,
                   ready, sigSent, sigRecv, log, raced>>

(* --------------------------- environment ------------------------------ *)

\* the supervisor puts a signal on the signals channel of invocation r
SendSignal(r) ==
    /\ construct.state = "returned"
    /\ sigSent[r] < MaxSignals
    /\ sigSent' = [sigSent EXCEPT ![r] = @ + 1]
    /\ UNCHANGED <<construct, desc, extHolds, runVars>>

\* another process binds the fixed address, or releases it
ExtBind ==
    /\ ~extHolds
    /\ \A q \in Runs : ~(desc.listenAddress = "fixed" /\ lis[q] = "open")
    /\ extHolds' = TRUE
    /\ UNCHANGED <<construct, desc, runVars, sigSent>>

ExtRelease ==
    /\ extHolds
    /\ extHolds' = FALSE
    /\ UNCHANGED <<construct, desc, runVars, sigSent>>

(* ------------------------------ Next ---------------------------------- *)

Next ==
    \/ Construct
    \/ \E r \in Runs : ListenOk(r)
    \/ \E r \in Runs : ListenFail(r)
    \/ \E r \in Runs : NewServer(r)
    \/ \E r \in Runs : Register(r)
    \/ \E r \in Runs : Spawn(r)
    \/ \E r \in Runs : CloseReady(r)
    \/ \E r \in Runs : SelectSignal(r)
    \/ \E r \in Runs : SelectErr(r)
    \/ \E r \in Runs : GracefulStopCall(r)
    \/ \E r \in Runs : GracefulStopReturn(r)
    \/ \E r \in Runs : Return(r)
    \/ \E r \in Runs : BgServe(r)
    \/ \E r \in Runs, e \in ServeFailures \cup {Nil} : BgServeFails(r, e)
    \/ \E r \in Runs, e \in StoppedOutcomes : BgServeStopped(r, e)
    \/ \E r \in Runs : SendSignal(r)
    \/ ExtBind
    \/ ExtRelease

Spec == Init /\ [][Next]_vars

\* the steps of Run after the bind: the goroutine running Run is scheduled
\* fairly, and GracefulStop is taken to return
RunStep(r) ==
    \/ NewServer(r)
    \/ Register(r)
    \/ Spawn(r)
    \/ CloseReady(r)
    \/ SelectSignal(r)
    \/ SelectErr(r)
    \/ GracefulStopCall(r)
    \/ GracefulStopReturn(r)
    \/ Return(r)

\* the steps of the serve goroutine that need no outside event
BgStep(r) ==
    \/ BgServe(r)
    \/ \E e \in StoppedOutcomes : BgServeStopped(r, e)

FairSpec ==
    /\ Spec
    /\ \A r \in Runs : WF_vars(RunStep(r)) /\ WF_vars(BgStep(r))

(* ------------------------- reading the log ---------------------------- *)

Has(r, ev) == \E i \in DOMAIN log[r] : log[r][i] = ev

Count(r, ev) == Cardinality({i \in DOMAIN log[r] : log[r][i] = ev})

Idx(r, ev) ==
    IF Has(r, ev)
      THEN CHOOSE i \in DOMAIN log[r] :
             log[r][i] = ev /\ \A j \in 1..(i - 1) : log[r][j] # ev
      ELSE 0

Before(r, a, b) == Has(r, a) /\ Has(r, b) /\ Idx(r, a) < Idx(r, b)

Returned(r) == pc[r] = "done"

BindOk(r) == Has(r, "listen")

Resolved(r) == Has(r, "recvSignal") \/ Has(r, "recvErr")

(* ------------------------------ claims -------------------------------- *)

\* C1: a Run whose bind succeeded and whose select took a value from the
\* signals channel returns nil, and returns only after GracefulStop returned.
C1_SignalWinReturnsNil ==
    \A r \in Runs :
        (Returned(r) /\ BindOk(r) /\ Has(r, "recvSignal")) =>
            /\ ret[r] = Nil
            /\ Before(r, "stopReturn", "return")
            /\ server[r].state = "stopped"

C1_Witness ==
    \E r \in Runs : Returned(r) /\ Has(r, "recvSignal") /\ bg[r].pc = "serving"

\* C2: when the serve goroutine ends with an error E and the select takes it
\* (which it must when no signal has arrived), Run returns exactly E, after
\* GracefulStop returned, and Serve was called only once.
C2_ServeErrorReturned ==
    \A r \in Runs :
        /\ (Returned(r) /\ Has(r, "recvErr")) =>
              /\ ret[r] = bg[r].outcome
              /\ Before(r, "stopReturn", "return")
              /\ Count(r, "stopCall") = 1
              /\ bg[r].serves = 1
              /\ Count(r, "go") = 1
        /\ (Returned(r) /\ BindOk(r) /\ sigRecv[r] = 0) =>
              /\ Has(r, "recvErr")
              /\ ret[r] = bg[r].outcome

C2_Witness ==
    \E r \in Runs :
        /\ Returned(r) /\ Has(r, "recvErr")
        /\ sigSent[r] = 0
        /\ ret[r] \in ServeFailures

\* C3: when the bind fails Run returns the bind error at once: ready stays
\* open, the registrar is not called, no server is made, no goroutine is
\* started, GracefulStop is not called and no signal is consumed.
C3_BindFailureOnlyReturns ==
    \A r \in Runs :
        Has(r, "listenFailed") =>
            /\ log[r] = <<"listenFailed", "return">>
            /\ Returned(r)
            /\ ret[r] = BindError
            /\ ready[r] = "open"
            /\ lis[r] = "none"
            /\ server[r] = [state |-> "none", creds |-> <<>>, registered |-> <<>>]
            /\ errCh[r] = [made |-> FALSE, ops |-> <<>>]
            /\ bg[r] = [pc |-> "none", outcome |-> Nil, serves |-> 0, sends |-> 0]
            /\ sigRecv[r] = 0

C3_Witness ==
    \E r \in Runs : Has(r, "listenFailed") /\ Returned(r) /\ Pending(r) > 0

\* C4 as stated: every Run invocation that has returned closed ready exactly
\* once (after bind and serve start, before the wait).
C4_Original_ReadyInEveryRun ==
    \A r \in Runs :
        Returned(r) =>
            /\ Count(r, "ready") = 1
            /\ ready[r] = "closed"

\* C4 amended: in a Run whose bind succeeded ready is closed exactly once,
\* after the listener is bound and the serve goroutine has been started and
\* before the select; in a Run whose bind failed it is never closed.
C4_ReadyOrdering ==
    \A r \in Runs :
        /\ Count(r, "ready") <= 1
        /\ (ready[r] = "closed") <=> Has(r, "ready")
        /\ ready[r] = "closed" =>
              /\ lis[r] # "none"
              /\ bg[r].pc # "none"
              /\ Before(r, "listen", "go")
              /\ Before(r, "go", "ready")
        /\ (pc[r] = "wait" \/ Resolved(r)) => ready[r] = "closed"
        /\ Has(r, "recvSignal") => Before(r, "ready", "recvSignal")
        /\ Has(r, "recvErr") => Before(r, "ready", "recvErr")
        /\ (Returned(r) /\ BindOk(r)) => Count(r, "ready") = 1
        /\ (Returned(r) /\ ~BindOk(r)) => ready[r] = "open"

C4_Witness ==
    \E r \in Runs : pc[r] = "wait" /\ ready[r] = "closed" /\ bg[r].pc = "spawned"

\* C5: in a Run whose bind succeeded GracefulStop is called exactly once: not
\* before the select has received a signal or a serve outcome, always after
\* it whichever was received, and it has returned before Run returns.
C5_GracefulStopOnce ==
    \A r \in Runs :
        /\ Count(r, "stopCall") <= 1
        /\ Count(r, "stopReturn") <= Count(r, "stopCall")
        /\ Has(r, "stopCall") =>
              \/ Before(r, "recvSignal", "stopCall")
              \/ Before(r, "recvErr", "stopCall")
        /\ server[r].state = "stopped" <=> Has(r, "stopCall")
        /\ (Returned(r) /\ BindOk(r)) =>
              /\ Resolved(r)
              /\ Count(r, "stopCall") = 1
              /\ Count(r, "stopReturn") = 1
              /\ Before(r, "stopCall", "stopReturn")
              /\ Before(r, "stopReturn", "return")

C5_Witness ==
    \E r \in Runs : Returned(r) /\ Has(r, "recvErr") /\ Count(r, "stopCall") = 1

\* C6: when a signal and a serve outcome are both available to the select,
\* exactly one of them is taken: Run returns once, nil if the signal was
\* taken and the serve outcome if that was taken; Run does not panic and
\* does not call GracefulStop twice, and the event not taken changes nothing.
C6_OneWinner ==
    \A r \in Runs :
        /\ Count(r, "recvSignal") + Count(r, "recvErr") <= 1
        /\ Count(r, "return") <= 1
        /\ Count(r, "stopCall") <= 1
        /\ pc[r] # "panicked"
        /\ sigRecv[r] = Count(r, "recvSignal")
        /\ (Returned(r) /\ Has(r, "recvSignal")) => ret[r] = Nil
        /\ (Returned(r) /\ Has(r, "recvErr")) => ret[r] = bg[r].outcome
        /\ Has(r, "recvSignal") => err[r] = Nil /\ bg[r].pc # "exited"
        /\ Has(r, "recvErr") => sigRecv[r] = 0

C6_Witness ==
    \E r, q \in Runs :
        /\ Returned(r) /\ raced[r] /\ Has(r, "recvSignal")
        /\ bg[r].pc = "send" /\ bg[r].outcome \in ServeFailures
        /\ Returned(q) /\ raced[q] /\ Has(q, "recvErr")
        /\ ret[q] \in ServeFailures /\ Pending(q) > 0

\* the four preconditions of NewGRPCServer, on the arguments of a call
PreIsFunc(g) == g.kind = "func"

PreArity(g) == Len(g.in) = 2 /\ Len(g.out) = 0

PreFirstParam(g) == Len(g.in) >= 1 /\ g.in[1] = GrpcServerPtr

PreImplements(g, h) ==
    /\ Len(g.in) >= 2
    /\ g.in[2] \in InterfaceTypes
    /\ h # Nil
    /\ MethodSet(g.in[2]) \subseteq MethodSet(h)

PreAll(g, h) == PreIsFunc(g) /\ PreArity(g) /\ PreFirstParam(g) /\ PreImplements(g, h)

NoNetwork ==
    \A r \in Runs :
        /\ lis[r] = "none"
        /\ server[r].state = "none"
        /\ server[r].registered = <<>>
        /\ bg[r].pc = "none"

\* C8: the NewGRPCServer call changes nothing of the network (no listener,
\* no server, no registrar call, no serving), and whenever a listener is
\* bound or a server exists the runner's registrar and handler satisfy all
\* four construction checks.
C8_ConstructionTouchesNoNetwork ==
    /\ [](~NoNetwork =>
            /\ construct.state = "returned"
            /\ PreAll(desc.serverRegistrar, desc.handler))
    /\ [][construct' # construct =>
            /\ UNCHANGED <<lis, server, bg, errCh, ready, pc, log, extHolds>>
            /\ NoNetwork']_vars

C8_Witness ==
    \E r \in Runs :
        /\ lis[r] = "open" /\ server[r].state = "started"
        /\ desc.handler = "fooImpl" /\ desc.serverRegistrar.in[2] = "FooServer"

\* C9: whenever the serve goroutine has an outcome to send on errCh, the
\* send can still complete: Run has not gone past the select that is the
\* only receiver, so the goroutine is not left blocked for ever.
C9_OutcomeAlwaysDelivered ==
    \A r \in Runs :
        bg[r].pc = "send" => pc[r] \in {"spawned", "wait"}

\* C10: errCh is sent on at most once, only by the serve goroutine, and
\* received from at most once, only by the select of Run; nothing else
\* sends on it, receives from it or closes it.
C10_ErrChSingleHandoff ==
    \A r \in Runs :
        /\ bg[r].sends <= 1
        /\ errCh[r].ops \in {<<>>, <<<<"send", "bg">>, <<"recv", "run">>>>}
        /\ (errCh[r].ops # <<>>) <=> Has(r, "recvErr")
        /\ errCh[r].ops # <<>> => bg[r].pc = "exited" /\ bg[r].sends = 1
        /\ Count(r, "recvErr") <= 1
        /\ errCh[r].made <=> Has(r, "go")

C10_Witness ==
    \E r \in Runs : Returned(r) /\ errCh[r].ops # <<>> /\ Pending(r) > 0

\* C11: the runner is immutable once NewGRPCServer has returned it: no step
\* of Run (bind failure, signal taken, serve outcome taken) changes
\* listenAddress, handler, serverRegistrar or tlsConfig, and the registrar
\* and handler Run uses are the values given to NewGRPCServer.
C11_DescriptorImmutable ==
    /\ [](\A r \in Runs :
            \A i \in DOMAIN server[r].registered :
                /\ server[r].registered[i].registrar = construct.registrar
                /\ server[r].registered[i].handler = construct.handler)
    /\ [](construct.state = "returned" =>
            /\ desc.serverRegistrar = construct.registrar
            /\ desc.handler = construct.handler)
    /\ [][construct.state = "returned" => desc' = desc]_vars
    /\ [][desc' # desc => construct.state = "none" /\ construct'.state = "returned"]_vars

C11_Witness ==
    \E r, q \in Runs :
        /\ Returned(r) /\ Has(r, "listenFailed")
        /\ Returned(q) /\ Has(q, "recvSignal")
        /\ desc.tlsConfig # Nil
        /\ Len(server[q].registered) = 1

\* C12: once a signal is waiting on the signals channel of a Run that has
\* bound its listener, Run eventually returns (fair scheduling, GracefulStop
\* returning); and while neither a signal nor a serve outcome is available
\* a Run at the select stays there: it neither calls GracefulStop nor returns.
\* "Bound and a signal was sent" and "returned" both stay true once true, so
\* "the first leads to the second" is "from some point on, the first implies
\* the second".
C12_SignalLeadsToReturn ==
    /\ <>[](\A r \in Runs : (BindOk(r) /\ sigSent[r] > 0) => Returned(r))
    /\ [][\A r \in Runs :
            (pc[r] = "wait" /\ Pending(r) = 0 /\ bg[r].pc # "send") =>
                /\ pc'[r] = "wait"
                /\ log'[r] = log[r]
                /\ ret'[r] = "unreturned"
                /\ server'[r].state # "stopped"]_vars

C12_Witness ==
    \E r \in Runs :
        /\ Returned(r) /\ Has(r, "recvSignal")
        /\ bg[r].pc = "serving" /\ Pending(r) = 0 /\ sigSent[r] = 1

\* C13: in a Run whose bind succeeded the registrar is called exactly once,
\* with the server built in this invocation and the runner's handler, after
\* the listener is bound and the server is built, before the serve goroutine
\* is started and before ready is closed; never after serving has started.
C13_RegistrarCalledOnce ==
    \A r \in Runs :
        /\ Len(server[r].registered) = Count(r, "register")
        /\ Count(r, "register") <= 1
        /\ \A i \in DOMAIN server[r].registered :
              server[r].registered[i] =
                  [registrar |-> desc.serverRegistrar, server |-> r,
                   handler |-> desc.handler]
        /\ Has(r, "register") =>
              /\ Before(r, "listen", "newServer")
              /\ Before(r, "newServer", "register")
        /\ Has(r, "go") => Before(r, "register", "go")
        /\ Has(r, "ready") => Before(r, "register", "ready")
        /\ bg[r].pc # "none" => Len(server[r].registered) = 1
        /\ server[r].state \in {"started", "stopped"} => Len(server[r].registered) = 1
        /\ (Returned(r) /\ BindOk(r)) => Count(r, "register") = 1
        /\ ~BindOk(r) => server[r].registered = <<>>

C13_Witness ==
    \E r \in Runs :
        /\ Returned(r) /\ BindOk(r)
        /\ server[r].registered = <<[registrar |-> desc.serverRegistrar,
                                     server |-> r, handler |-> "fooImpl"]>>

\* C14: the server Run builds carries exactly one credentials option, made
\* from tlsConfig, when the runner's tlsConfig is set, and none when it is
\* nil; the option list is fixed when the server is built and no later step
\* changes it.
C14_CredsIffTlsConfig ==
    /\ [](\A r \in Runs :
            /\ server[r].state # "none" =>
                  server[r].creds =
                      IF desc.tlsConfig # Nil THEN <<desc.tlsConfig>> ELSE <<>>
            /\ server[r].state = "none" => server[r].creds = <<>>
            /\ (server[r].state # "none") <=> Has(r, "newServer"))
    /\ [][\A r \in Runs :
            server'[r].creds # server[r].creds =>
                /\ pc[r] = "bound"
                /\ pc'[r] = "built"]_vars

C14_Witness ==
    \E r, q \in Runs :
        /\ Returned(r) /\ Has(r, "recvErr")
        /\ Returned(q) /\ Has(q, "recvSignal")
        /\ server[r].creds = <<"tlsCfg">> /\ server[q].creds = <<"tlsCfg">>

\* C15: when Run returns after a successful bind, the listener it bound has
\* been released and the server is stopped, in every interleaving of the
\* serve goroutine with the signal, also when GracefulStop runs before the
\* goroutine has called Serve.
C15_ResourcesReleasedAtReturn ==
    \A r \in Runs :
        (Returned(r) /\ BindOk(r)) =>
            /\ lis[r] = "closed"
            /\ server[r].state = "stopped"

\* C16: when Serve ends cleanly (nil) and the select takes that outcome, no
\* signal having been received, GracefulStop is still called exactly once
\* and Run returns nil: a nil return does not need a signal.
C16_CleanServeExit ==
    \A r \in Runs :
        /\ (Has(r, "recvErr") /\ bg[r].outcome = Nil) =>
              /\ sigRecv[r] = 0
              /\ err[r] = Nil
              /\ pc[r] \in {"stop", "stopping", "stopped", "done"}
              /\ pc[r] \in {"stopping", "stopped", "done"} <=> Count(r, "stopCall") = 1
        /\ (Returned(r) /\ Has(r, "recvErr") /\ bg[r].outcome = Nil) =>
              /\ ret[r] = Nil
              /\ Count(r, "stopCall") = 1
              /\ Count(r, "stopReturn") = 1
              /\ Before(r, "recvErr", "stopCall")
              /\ Before(r, "stopReturn", "return")
              /\ server[r].state = "stopped"

C16_Witness ==
    \E r \in Runs :
        /\ Returned(r) /\ BindOk(r)
        /\ ret[r] = Nil
        /\ sigSent[r] = 0
        /\ Has(r, "recvErr")

\* C17: a Run takes at most one value from the signals channel: exactly one
\* when the select took the signal, none when it took the serve outcome or
\* when the bind failed; the other signals stay in the channel, and no step
\* of Run puts a value on it.
C17_AtMostOneSignalConsumed ==
    /\ [](\A r \in Runs :
            /\ sigRecv[r] <= 1
            /\ sigRecv[r] <= sigSent[r]
            /\ Has(r, "recvSignal") <=> sigRecv[r] = 1
            /\ (Has(r, "recvErr") \/ Has(r, "listenFailed")) => sigRecv[r] = 0
            /\ Pending(r) = sigSent[r] - (IF Has(r, "recvSignal") THEN 1 ELSE 0))
    /\ [][\A r \in Runs :
            /\ sigRecv'[r] # sigRecv[r] =>
                  /\ pc[r] = "wait" /\ pc'[r] = "stop"
                  /\ sigRecv'[r] = sigRecv[r] + 1
                  /\ sigSent'[r] = sigSent[r]
            /\ sigSent'[r] # sigSent[r] =>
                  /\ sigSent'[r] = sigSent[r] + 1
                  /\ UNCHANGED <<pc, log, sigRecv>>]_vars

C17_Witness ==
    \E r, q \in Runs :
        /\ Returned(r) /\ sigRecv[r] = 1 /\ Pending(r) = 1
        /\ Returned(q) /\ Has(q, "recvErr") /\ Pending(q) = 2

\* C18: with a fixed listen address at most one Run invocation holds the
\* listener at any time, and never together with another process; an
\* invocation that binds while the address is held returns the bind error
\* without closing ready, calling the registrar or calling GracefulStop, and
\* its step changes nothing of the other invocations.
C18_OneListenerPerFixedAddress ==
    /\ [](desc.listenAddress = "fixed" =>
            /\ Cardinality({r \in Runs : lis[r] = "open"}) <= 1
            /\ ~(extHolds /\ \E r \in Runs : lis[r] = "open"))
    /\ [](\A r \in Runs :
            Has(r, "listenFailed") =>
                /\ desc.listenAddress = "fixed"
                /\ ret[r] = BindError
                /\ ready[r] = "open"
                /\ server[r].registered = <<>>
                /\ ~Has(r, "stopCall")
                /\ lis[r] = "none")
    /\ [][\A r \in Runs :
            (Has(r, "listenFailed")' /\ ~Has(r, "listenFailed")) =>
                /\ extHolds \/ \E q \in Runs \ {r} : lis[q] = "open"
                /\ \A q \in Runs \ {r} :
                      /\ pc'[q] = pc[q] /\ lis'[q] = lis[q] /\ err'[q] = err[q]
                      /\ server'[q] = server[q] /\ bg'[q] = bg[q]
                      /\ errCh'[q] = errCh[q] /\ ready'[q] = ready[q]
                      /\ ret'[q] = ret[q] /\ log'[q] = log[q]
                      /\ sigRecv'[q] = sigRecv[q]]_vars

C18_Witness ==
    \E r, q \in Runs :
        /\ ~extHolds
        /\ Has(r, "listenFailed") /\ Returned(r)
        /\ lis[q] = "open" /\ server[q].state = "started" /\ bg[q].pc = "serving"
        /\ pc[q] = "wait"


=============================================================================
